---- MODULE Spec2Model ----
(***************************************************************************)
(* Model of the ensemble decision policy of backend/unified_app.py:        *)
(* predict_disease (per-classifier labelling and aggregation),             *)
(* generate_medical_report and the two endpoints that call them            *)
(* (/api/upload and /api/predict); of the accounts of auth_system.py,      *)
(* auth_routes.py and admin_routes.py (tokens, require_auth, require_admin *)
(* and the endpoints that change users); and of the patient and prediction *)
(* records behind the endpoints that read and delete them.                 *)
(*                                                                         *)
(* Probabilities are fixed-point numbers: the integer v stands for v/One.  *)
(***************************************************************************)
EXTENDS Integers, Sequences, FiniteSets, TLC

VARIABLES models, model_status, pc, endpoint, img_array, quality_score, i,
          prediction, predictions, confidence_scores, result,
          medical_report, saved_row, response,
          now, first,
          files, reqs, rows,
          db, tokens, inflight, last

\* the upload folder, the requests in flight and the predictions table
concvars == <<files, reqs, rows>>

\* the database, the tokens the clients hold, the uploads between their
\* patient check and their INSERT, and the last answered request
dbvars == <<db, tokens, inflight, last>>

vars == <<models, model_status, pc, endpoint, img_array, quality_score, i,
          prediction, predictions, confidence_scores, result,
          medical_report, saved_row, response,
          now, first, files, reqs, rows, db, tokens, inflight, last>>

----------------------------------------------------------------------------
(* Fixed-point encoding of the float literals of the source.               *)

\* 1.0, as in "1 - pneumonia_prob"
One == 60
\* 0.5, the acceptance threshold
Half == 30
\* 0.85, the default confidence of a 'normal' diagnosis
DefaultNormal == 51
\* 0.5, the default confidence of a non-normal diagnosis
DefaultDisease == 30
\* 0.8 and 0.6, the urgency bands of the report
HighBand == 48
MediumBand == 36
\* image-quality score below which a quality note is attached
QualityNote == 50

(* Bounds of the model.                                                    *)
\* the grid of probabilities holds every multiple of GridStep in 0..One
GridStep == 12
\* the clock of SpecTwice runs from 0 to MaxClock
MaxClock == 1
\* the patients and predictions tables hold at most this many rows over time
MaxPatients == 2
MaxPredictions == 2

\* values the grid always holds: 0, 0.1, 0.3, 1/3, 0.5, 0.6, 0.8, 0.85, 1
Special == {0, 6, 18, 20, Half, MediumBand, HighBand, DefaultNormal, One}
Grid == {v \in 0..One : v % GridStep = 0} \cup Special

\* image-quality scores (0..100) an upload may get
QualityScores == {0, 49, 50, 100}

----------------------------------------------------------------------------
(* The registry of classifiers.                                            *)

MODEL_PATHS == <<"pneumonia", "tuberculosis", "lung_cancer">>

\* the sub-sequences of MODEL_PATHS: load_models keeps the registry order
Registries ==
    { SelectSeq(MODEL_PATHS, LAMBDA d : d \in S) :
        S \in SUBSET {"pneumonia", "tuberculosis", "lung_cancer"} }

\* the table with the entries it had before the three-class lung model
DISEASE_INFO_Legacy == {"pneumonia", "tuberculosis", "lung_cancer"}

\* labels with an entry in the static metadata table
DISEASE_INFO == {"pneumonia", "tuberculosis", "lung_cancer",
                 "lung_cancer_benign", "lung_cancer_malignant"}

\* model_status after load_models: "Ready" for exactly the loaded models
Statuses(registry) ==
    { st \in [{"pneumonia", "tuberculosis", "lung_cancer"} ->
                {"Ready", "Not Found", "Error"}] :
        \A d \in DOMAIN st :
            st[d] = "Ready" <=> \E k \in 1..Len(registry) : registry[k] = d }

None == [none |-> TRUE]

----------------------------------------------------------------------------
(* Raw classifier outcomes: model.predict either raises or returns the     *)
(* vector prediction[0].                                                   *)

Raise == [throws |-> TRUE, out |-> <<>>]
Returns(vec) == [throws |-> FALSE, out |-> vec]

Sigmoid1 == { <<v>> : v \in Grid }
Softmax2 == { <<n, One - n>> : n \in Grid }
Softmax3 == { <<n, b, One - n - b>> : n \in Grid, b \in Grid } \cap
            { <<n, b, m>> : n \in Grid, b \in Grid, m \in Grid }

\* vectors of an arity the classifier does not declare
BadSigmoid == { <<>>, <<48, 12>>, <<12, 48>>, <<20, 20, 20>> }
BadLung == { <<>>, <<18>>, <<DefaultNormal>>, <<15, 15, 15, 15>> }

Outputs(disease) ==
    IF disease = "lung_cancer"
    THEN Softmax3 \cup Softmax2 \cup BadLung
    ELSE Sigmoid1 \cup BadSigmoid

Outcomes(disease) == {Raise} \cup { Returns(vec) : vec \in Outputs(disease) }

----------------------------------------------------------------------------
(* Python dicts: a function plus the insertion order of its keys.  Every   *)
(* dict of predict_disease is filled in registry order.                    *)

EmptyDict == [k \in {} |-> 0]

Put(dict, key, value) ==
    [k \in (DOMAIN dict) \cup {key} |-> IF k = key THEN value ELSE dict[k]]

KeysReversed(dict) ==
    LET keys == SelectSeq(MODEL_PATHS, LAMBDA d : d \in DOMAIN dict)
    IN  [k \in 1..Len(keys) |-> keys[Len(keys) + 1 - k]]

Keys(dict) == SelectSeq(MODEL_PATHS, LAMBDA d : d \in DOMAIN dict)

MaxOf(S) == CHOOSE x \in S : \A y \in S : y <= x

----------------------------------------------------------------------------
(* predict_disease, the loop body: one classifier's raw outcome to a label *)
(* and a confidence.                                                       *)

\* the except branch of the loop body
ErrorEntry == [diagnosis |-> "error", confidence |-> 0]

\* prediction[0][0] of an empty vector raises IndexError inside the try
Raises(disease, p) ==
    p.throws \/ (disease # "lung_cancer" /\ Len(p.out) = 0)

\* the threshold test written with >= instead of >
ClassifySigmoidAtHalf(disease, prob) ==
    [diagnosis  |-> IF prob >= Half THEN disease ELSE "normal",
     confidence |-> IF prob >= Half THEN prob ELSE One - prob]

ClassifySigmoid(disease, prob) ==
    [diagnosis  |-> IF prob > Half THEN disease ELSE "normal",
     confidence |-> IF prob > Half THEN prob ELSE One - prob]

\* the branches tested in the order normal, benign, malignant
ClassifyLung3NormalFirst(normal_prob, benign_prob, malignant_prob) ==
    LET max_prob == MaxOf({normal_prob, benign_prob, malignant_prob})
    IN  IF normal_prob = max_prob
        THEN [diagnosis |-> "normal", confidence |-> normal_prob]
        ELSE IF benign_prob = max_prob
        THEN [diagnosis |-> "lung_cancer_benign", confidence |-> benign_prob]
        ELSE [diagnosis |-> "lung_cancer_malignant", confidence |-> malignant_prob]

ClassifyLung3(normal_prob, benign_prob, malignant_prob) ==
    LET max_prob == MaxOf({normal_prob, benign_prob, malignant_prob})
    IN  IF malignant_prob = max_prob
        THEN [diagnosis |-> "lung_cancer_malignant", confidence |-> malignant_prob]
        ELSE IF benign_prob = max_prob
        THEN [diagnosis |-> "lung_cancer_benign", confidence |-> benign_prob]
        ELSE [diagnosis |-> "normal", confidence |-> normal_prob]

ClassifyLung2(normal_prob, cancer_prob) ==
    IF cancer_prob > normal_prob
    THEN [diagnosis |-> "lung_cancer", confidence |-> cancer_prob]
    ELSE [diagnosis |-> "normal", confidence |-> normal_prob]

ClassifyLung(out) ==
    IF Len(out) = 3 THEN ClassifyLung3(out[1], out[2], out[3])
    ELSE IF Len(out) = 2 THEN ClassifyLung2(out[1], out[2])
    ELSE ErrorEntry

\* the try block of the loop body, for an outcome that does not raise
Classify(disease, out) ==
    IF disease = "lung_cancer"
    THEN ClassifyLung(out)
    ELSE ClassifySigmoid(disease, out[1])

\* the try/except put around the loop: a raise loses the entries made so far
RunModelAbort(preds, confs, disease, p) ==
    IF Raises(disease, p)
    THEN [predictions       |-> Put(EmptyDict, disease, ErrorEntry.diagnosis),
          confidence_scores |-> Put(EmptyDict, disease, ErrorEntry.confidence)]
    ELSE [predictions       |-> Put(preds, disease, Classify(disease, p.out).diagnosis),
          confidence_scores |-> Put(confs, disease, Classify(disease, p.out).confidence)]

\* one iteration of "for disease, model in models.items()"
RunModel(preds, confs, disease, p) ==
    LET entry == IF Raises(disease, p) THEN ErrorEntry
                 ELSE Classify(disease, p.out)
    IN  [predictions       |-> Put(preds, disease, entry.diagnosis),
         confidence_scores |-> Put(confs, disease, entry.confidence)]

----------------------------------------------------------------------------
(* predict_disease, the aggregation.                                       *)

\* the acceptance test written with >= instead of >
SignificantAtHalf(preds, confs, disease) ==
    /\ preds[disease] # "normal"
    /\ preds[disease] # "error"
    /\ confs[disease] >= Half

Significant(preds, confs, disease) ==
    /\ preds[disease] # "normal"
    /\ preds[disease] # "error"
    /\ confs[disease] > Half

\* the dict significant_diseases, as the sequence of its items
SignificantDiseases(preds, confs) ==
    LET keys == SelectSeq(Keys(confs), LAMBDA d : Significant(preds, confs, d))
    IN  [k \in 1..Len(keys) |->
            [disease    |-> keys[k],
             diagnosis  |-> preds[keys[k]],
             confidence |-> confs[keys[k]]]]

\* the last item taken instead of the maximal one
LastFinding(sd) == Len(sd)

\* max(significant_diseases.keys(), key=...): the first maximal item
HighestConfidence(sd) ==
    CHOOSE k \in 1..Len(sd) :
        /\ \A j \in 1..Len(sd) : sd[j].confidence <= sd[k].confidence
        /\ \A j \in 1..(k - 1) : sd[j].confidence < sd[k].confidence

\* the zero confidence left as it is
KeepConfidence(final_diagnosis, final_confidence) == final_confidence

\* the defaults written as percentages (85 and 50) instead of fractions
ValidConfidencePercent(final_diagnosis, final_confidence) ==
    IF final_confidence = 0
    THEN (IF final_diagnosis = "normal" THEN 85 ELSE 50)
    ELSE final_confidence

\* "Ensure we have valid values"
ValidConfidence(final_diagnosis, final_confidence) ==
    IF final_confidence = 0
    THEN (IF final_diagnosis = "normal" THEN DefaultNormal ELSE DefaultDisease)
    ELSE final_confidence

Aggregate(preds, confs, quality) ==
    LET sd == SignificantDiseases(preds, confs)
        final_diagnosis ==
            IF sd = <<>> THEN "normal" ELSE sd[HighestConfidence(sd)].diagnosis
        final_confidence ==
            IF sd = <<>>
            THEN (IF DOMAIN confs # {}
                  THEN MaxOf({confs[d] : d \in DOMAIN confs})
                  ELSE DefaultNormal)
            ELSE sd[HighestConfidence(sd)].confidence
        multiple_findings == IF sd = <<>> THEN FALSE ELSE Len(sd) > 1
    IN  [primary_diagnosis    |-> final_diagnosis,
         confidence           |-> ValidConfidence(final_diagnosis, final_confidence),
         all_predictions      |-> preds,
         confidence_scores    |-> confs,
         significant_diseases |-> sd,
         multiple_findings    |-> multiple_findings,
         image_quality        |-> quality]

\* the two fields of the result read from outside the aggregation:
\* 'model_status' (the global dict) and 'timestamp' (datetime.now())
Stamped(aggregate, status, time) ==
    [primary_diagnosis    |-> aggregate.primary_diagnosis,
     confidence           |-> aggregate.confidence,
     all_predictions      |-> aggregate.all_predictions,
     confidence_scores    |-> aggregate.confidence_scores,
     significant_diseases |-> aggregate.significant_diseases,
     multiple_findings    |-> aggregate.multiple_findings,
     image_quality        |-> aggregate.image_quality,
     model_status         |-> status,
     timestamp            |-> time]

----------------------------------------------------------------------------
(* generate_medical_report.                                                *)

\* label.replace('_', ' ').title()
Title(label) ==
    CASE label = "pneumonia"             -> "Pneumonia"
      [] label = "tuberculosis"          -> "Tuberculosis"
      [] label = "lung_cancer"           -> "Lung Cancer"
      [] label = "lung_cancer_benign"    -> "Lung Cancer Benign"
      [] label = "lung_cancer_malignant" -> "Lung Cancer Malignant"
      [] label = "normal"                -> "Normal"
      [] OTHER                           -> "Error"

\* f"{confidence:.1%}": tenths of a percent, rounded to the nearest
Percent(confidence) == (2 * 1000 * confidence + One) \div (2 * One)

\* DISEASE_INFO.get(label, {}).get('description', 'Unknown condition')
Description(label) ==
    IF label \in DISEASE_INFO THEN label ELSE "Unknown condition"

\* DISEASE_INFO.get(label, {}).get(field, []): the field of the table entry
\* of the label, or the empty list
InfoList(label, field) ==
    IF label \in DISEASE_INFO THEN <<label, field>> ELSE <<>>

Finding(info) ==
    [disease            |-> Title(info.diagnosis),
     confidence         |-> Percent(info.confidence),
     confidence_numeric |-> info.confidence,
     description        |-> Description(info.diagnosis),
     symptoms           |-> InfoList(info.diagnosis, "symptoms"),
     treatments         |-> InfoList(info.diagnosis, "treatments")]

\* insertion of a finding in front of the findings of equal confidence
InsertFindingTiesFirst(sorted, f) ==
    SelectSeq(sorted, LAMBDA g : g.confidence_numeric > f.confidence_numeric)
    \o <<f>> \o
    SelectSeq(sorted, LAMBDA g : g.confidence_numeric <= f.confidence_numeric)

\* insertion of a finding behind every finding that is not smaller
RECURSIVE InsertFinding(_, _)
InsertFinding(sorted, f) ==
    IF sorted = <<>> THEN <<f>>
    ELSE IF Head(sorted).confidence_numeric >= f.confidence_numeric
         THEN <<Head(sorted)>> \o InsertFinding(Tail(sorted), f)
         ELSE <<f>> \o sorted

\* the sort left out
UnsortedFindings(findings) == findings

\* all_findings.sort(key=confidence_numeric, reverse=True): a stable sort
RECURSIVE SortFindings(_)
SortFindings(findings) ==
    IF findings = <<>> THEN <<>>
    ELSE InsertFinding(SortFindings(SubSeq(findings, 1, Len(findings) - 1)),
                       findings[Len(findings)])

\* the bands tested with >= instead of >
UrgencyInclusive(multiple_findings, confidence) ==
    IF multiple_findings THEN "High"
    ELSE IF confidence >= HighBand THEN "High"
    ELSE IF confidence >= MediumBand THEN "Medium"
    ELSE "Low"

Urgency(multiple_findings, confidence) ==
    IF multiple_findings THEN "High"
    ELSE IF confidence > HighBand THEN "High"
    ELSE IF confidence > MediumBand THEN "Medium"
    ELSE "Low"

\* the note attached up to the score 50 instead of below it
QualityKeysInclusive(quality) ==
    IF quality <= QualityNote THEN {"quality_note"} ELSE {}

QualityKeys(quality) ==
    IF quality < QualityNote THEN {"quality_note"} ELSE {}

\* the else branch: the report of a non-normal diagnosis
DiseaseReport(prediction_result) ==
    LET diagnosis == prediction_result.primary_diagnosis
        confidence == prediction_result.confidence
        significant_diseases == prediction_result.significant_diseases
        multiple_findings == prediction_result.multiple_findings
        all_findings ==
            SortFindings([k \in 1..Len(significant_diseases) |->
                            Finding(significant_diseases[k])])
    IN  [summary           |->
             IF multiple_findings
             THEN <<"Multiple Findings">> \o
                  [k \in 1..Len(all_findings) |-> all_findings[k].disease]
             ELSE <<Title(diagnosis), "Detected">>,
         diagnosis         |-> Title(diagnosis),
         confidence        |-> Percent(confidence),
         timestamp         |-> now,
         image_quality     |-> prediction_result.image_quality,
         description       |->
             IF diagnosis \in DISEASE_INFO THEN diagnosis ELSE "",
         urgency           |-> Urgency(multiple_findings, confidence),
         multiple_findings |-> multiple_findings,
         all_findings      |-> all_findings,
         findings_count    |-> Len(all_findings),
         keys              |->
             {"findings_count"} \cup
             (IF diagnosis \in DISEASE_INFO
              THEN {"symptoms", "treatments", "severity_levels"}
              ELSE {})]

\* the normal branch left out: every diagnosis takes the else branch
NormalReportAsDisease(prediction_result) == DiseaseReport(prediction_result)

\* the branch "if diagnosis == 'normal'"
NormalReport(prediction_result) ==
    [summary           |-> <<"Normal Finding">>,
     diagnosis         |-> "Normal",
     confidence        |-> Percent(prediction_result.confidence),
     timestamp         |-> now,
     image_quality     |-> prediction_result.image_quality,
     description       |-> "normal",
     urgency           |-> "Low",
     multiple_findings |-> FALSE,
     all_findings      |-> <<>>,
     findings_count    |-> 0,
     keys              |-> {}]

\* the report; "keys" holds the optional keys the report carries
generate_medical_report(prediction_result) ==
    LET report == IF prediction_result.primary_diagnosis = "normal"
                  THEN NormalReport(prediction_result)
                  ELSE DiseaseReport(prediction_result)
    IN  [report EXCEPT !.keys = @ \cup QualityKeys(prediction_result.image_quality)]

----------------------------------------------------------------------------
(* The endpoints /api/upload and /api/predict, from the saved file on.     *)

Endpoints == {"upload", "predict"}

\* the row INSERTed into predictions: upload writes result['confidence'],
\* save_prediction_to_db reads the absent key 'primary_confidence'
PredictionRow(ep, prediction_result) ==
    [predicted_disease |-> prediction_result.primary_diagnosis,
     confidence        |-> IF ep = "upload" THEN prediction_result.confidence
                           ELSE 0]

Success(prediction_result) ==
    [status            |-> 200,
     error             |-> "",
     primary_diagnosis |-> prediction_result.primary_diagnosis,
     confidence        |-> prediction_result.confidence]

Failure ==
    [status            |-> 500,
     error             |-> "Failed to analyze image",
     primary_diagnosis |-> "",
     confidence        |-> 0]

----------------------------------------------------------------------------
(* The database (auth_system.init_auth_tables, unified_app.init_db).  A    *)
(* table is the set of its rows; a row keeps the columns the handlers      *)
(* select on.  user_activity, patients_enhanced and user_settings are      *)
(* projected on their user_id column, medical_history on patient_id.       *)

\* the users init_auth_tables creates: admin (id 1) and demo_patient (id 2)
DefaultUsers ==
    (1 :> [role |-> "admin", is_active |-> TRUE]) @@
    (2 :> [role |-> "patient", is_active |-> TRUE])

\* the database of a first start
FreshDb ==
    [users             |-> DefaultUsers,
     user_sessions     |-> {},
     user_activity     |-> {},
     patients_enhanced |-> {},
     settings_table    |-> FALSE,
     user_settings     |-> {},
     patients          |-> {},
     patient_seq       |-> 0,
     predictions       |-> {},
     prediction_seq    |-> 0,
     medical_history   |-> {}]

\* before the first request there is no answer
NoAnswer ==
    [endpoint |-> "",
     token    |-> None,
     target   |-> 0,
     status   |-> 0,
     owners   |-> {}]

\* no account used yet
FreshInstall ==
    /\ db = FreshDb
    /\ tokens = EmptyDict
    /\ inflight = {}
    /\ last = NoAnswer

----------------------------------------------------------------------------
(* The state machine.                                                      *)

\* the request-local structures before a request
Idle ==
    /\ pc = "idle"
    /\ endpoint = "upload"
    /\ img_array = "unset"
    /\ quality_score = 0
    /\ i = 1
    /\ prediction = EmptyDict
    /\ predictions = EmptyDict
    /\ confidence_scores = EmptyDict
    /\ result = None
    /\ medical_report = None
    /\ saved_row = None
    /\ response = None

\* no file uploaded, no request in flight, no prediction persisted
NoUploads ==
    /\ files = EmptyDict
    /\ reqs = EmptyDict
    /\ rows = <<>>

Init ==
    /\ models \in Registries
    /\ model_status \in Statuses(models)
    /\ now = 0
    /\ first = None
    /\ Idle
    /\ FreshInstall
    /\ NoUploads

\* a request arrives and preprocess_image decodes its file
StartRequest ==
    /\ pc = "idle"
    /\ \E ep \in Endpoints, q \in QualityScores :
          /\ endpoint' = ep
          /\ quality_score' = q
    /\ img_array' = "tensor"
    /\ pc' = "predicting"
    /\ i' = 1
    /\ UNCHANGED <<models, model_status, prediction, predictions,
                   confidence_scores, result, medical_report, saved_row,
                   response, now, first>>
    /\ UNCHANGED concvars
    /\ UNCHANGED dbvars

\* the test "if img_array is None" left out: the loop runs on no image
PreprocessFailsUnchecked ==
    /\ pc = "idle"
    /\ \E ep \in Endpoints : endpoint' = ep
    /\ img_array' = "none"
    /\ quality_score' = 0
    /\ pc' = "predicting"
    /\ i' = 1
    /\ UNCHANGED <<models, model_status, prediction, predictions,
                   confidence_scores, result, medical_report, saved_row,
                   response, now, first>>
    /\ UNCHANGED concvars
    /\ UNCHANGED dbvars

\* a request arrives and preprocess_image fails: predict_disease returns
\* None and the endpoint answers 500
PreprocessFails ==
    /\ pc = "idle"
    /\ \E ep \in Endpoints : endpoint' = ep
    /\ img_array' = "none"
    /\ quality_score' = 0
    /\ result' = None
    /\ response' = Failure
    /\ pc' = "done"
    /\ UNCHANGED <<models, model_status, i, prediction, predictions,
                   confidence_scores, medical_report, saved_row, now, first>>
    /\ UNCHANGED concvars
    /\ UNCHANGED dbvars

\* a model that raises is marked in the global model_status
RunClassifierMarks ==
    /\ pc = "predicting"
    /\ i <= Len(models)
    /\ \E p \in Outcomes(models[i]) :
          LET run == RunModel(predictions, confidence_scores, models[i], p)
          IN  /\ prediction' = Put(prediction, models[i], p)
              /\ predictions' = run.predictions
              /\ confidence_scores' = run.confidence_scores
              /\ model_status' =
                    IF Raises(models[i], p)
                    THEN [model_status EXCEPT ![models[i]] = "Error"]
                    ELSE model_status
    /\ i' = i + 1
    /\ UNCHANGED <<models, pc, endpoint, img_array, quality_score, result,
                   medical_report, saved_row, response, now, first>>
    /\ UNCHANGED concvars
    /\ UNCHANGED dbvars

\* one iteration of the loop over the registry
RunClassifier ==
    /\ pc = "predicting"
    /\ i <= Len(models)
    /\ \E p \in Outcomes(models[i]) :
          LET run == RunModel(predictions, confidence_scores, models[i], p)
          IN  /\ prediction' = Put(prediction, models[i], p)
              /\ predictions' = run.predictions
              /\ confidence_scores' = run.confidence_scores
    /\ i' = i + 1
    /\ UNCHANGED <<models, model_status, pc, endpoint, img_array,
                   quality_score, result, medical_report, saved_row,
                   response, now, first>>
    /\ UNCHANGED concvars
    /\ UNCHANGED dbvars

\* the loop is over: predict_disease aggregates and returns, the endpoint
\* composes the report, persists the prediction and answers
Finish ==
    /\ pc = "predicting"
    /\ i > Len(models)
    /\ LET res == Stamped(Aggregate(predictions, confidence_scores, quality_score),
                          model_status, now)
           report == generate_medical_report(res)
       IN  /\ result' = res
           /\ medical_report' = report
           /\ saved_row' = PredictionRow(endpoint, res)
           /\ response' = Success(res)
    /\ pc' = "done"
    /\ UNCHANGED <<models, model_status, endpoint, img_array, quality_score,
                   i, prediction, predictions, confidence_scores, now, first>>
    /\ UNCHANGED concvars
    /\ UNCHANGED dbvars

\* the request is over; its structures are dropped
EndRequest ==
    /\ pc = "done"
    /\ pc' = "idle"
    /\ endpoint' = "upload"
    /\ img_array' = "unset"
    /\ quality_score' = 0
    /\ i' = 1
    /\ prediction' = EmptyDict
    /\ predictions' = EmptyDict
    /\ confidence_scores' = EmptyDict
    /\ result' = None
    /\ medical_report' = None
    /\ saved_row' = None
    /\ response' = None
    /\ UNCHANGED <<models, model_status, now, first>>
    /\ UNCHANGED concvars
    /\ UNCHANGED dbvars

Next ==
    \/ StartRequest
    \/ PreprocessFails
    \/ RunClassifier
    \/ Finish
    \/ EndRequest

\* the requests of one instant: the clock stands still
Spec == Init /\ [][Next]_vars

----------------------------------------------------------------------------
(* Repeated requests: the clock runs, the first answered request is        *)
(* remembered, and the inputs come from a small set so that they recur.    *)

ProbeOutcomes(disease) ==
    IF disease = "lung_cancer"
    THEN {Raise, Returns(<<6, 6, 48>>), Returns(<<20, 20, 20>>)}
    ELSE {Raise, Returns(<<18>>), Returns(<<DefaultNormal>>)}

ProbeScores == {49, 50}

InitTwice ==
    /\ models = MODEL_PATHS
    /\ model_status \in Statuses(models)
    /\ now = 0
    /\ first = None
    /\ Idle
    /\ FreshInstall
    /\ NoUploads

StartProbe ==
    /\ StartRequest
    /\ endpoint' = "upload"
    /\ quality_score' \in ProbeScores

RunProbe ==
    /\ RunClassifier
    /\ prediction'[models[i]] \in ProbeOutcomes(models[i])

\* datetime.now() advances
Tick ==
    /\ now < MaxClock
    /\ now' = now + 1
    /\ UNCHANGED <<models, model_status, pc, endpoint, img_array,
                   quality_score, i, prediction, predictions,
                   confidence_scores, result, medical_report, saved_row,
                   response, first>>
    /\ UNCHANGED concvars
    /\ UNCHANGED dbvars

\* the inputs of the current request
Inputs == [prediction |-> prediction, quality_score |-> quality_score]

\* the first answered request is remembered with its inputs
Remember ==
    /\ pc = "done"
    /\ result # None
    /\ first = None
    /\ first' = [inputs         |-> Inputs,
                 result         |-> result,
                 medical_report |-> medical_report]
    /\ UNCHANGED <<models, model_status, pc, endpoint, img_array,
                   quality_score, i, prediction, predictions,
                   confidence_scores, result, medical_report, saved_row,
                   response, now>>
    /\ UNCHANGED concvars
    /\ UNCHANGED dbvars

NextTwice ==
    \/ StartProbe
    \/ PreprocessFails
    \/ RunProbe
    \/ Finish
    \/ EndRequest
    \/ Tick
    \/ Remember

SpecTwice == InitTwice /\ [][NextTwice]_vars

----------------------------------------------------------------------------
(* Concurrent requests (app.run(threaded=True)): each request saves its    *)
(* file in the upload folder, predict_disease reads the file back by its   *)
(* path, and the endpoint persists the prediction with the path.           *)

Requests == {1, 2}

\* secure_filename(file.filename) of the uploads
Filenames == {"a.png", "b.png"}

\* the request-local variables of the aggregation, untouched here
single == <<models, model_status, pc, endpoint, img_array, quality_score, i,
            prediction, predictions, confidence_scores, result,
            medical_report, saved_row, response, first>>

\* f"{timestamp}_{filename}" in the upload folder: the second and the name
Filepath(time, filename) == <<time, filename>>

\* a request before its file is saved; its image is its own
Arrived(r, filename) ==
    [pc        |-> "arrived",
     filename  |-> filename,
     image     |-> r,
     filepath  |-> <<>>,
     img_array |-> 0,
     quality   |-> 0]

InitConc ==
    /\ models = MODEL_PATHS
    /\ model_status \in Statuses(models)
    /\ now = 0
    /\ first = None
    /\ Idle
    /\ FreshInstall
    /\ files = EmptyDict
    /\ reqs \in { [r \in Requests |-> Arrived(r, name[r])] :
                    name \in [Requests -> Filenames] }
    /\ rows = <<>>

\* file.save(filepath)
SaveFile(r) ==
    /\ reqs[r].pc = "arrived"
    /\ LET filepath == Filepath(now, reqs[r].filename)
       IN  /\ files' = [f \in (DOMAIN files) \cup {filepath} |->
                           IF f = filepath THEN reqs[r].image ELSE files[f]]
           /\ reqs' = [reqs EXCEPT ![r].pc = "saved", ![r].filepath = filepath]
    /\ UNCHANGED <<rows, now>>
    /\ UNCHANGED single
    /\ UNCHANGED dbvars

\* preprocess_image: image.load_img(image_path)
LoadImage(r) ==
    /\ reqs[r].pc = "saved"
    /\ reqs' = [reqs EXCEPT ![r].pc = "loaded",
                            ![r].img_array = files[reqs[r].filepath]]
    /\ UNCHANGED <<files, rows, now>>
    /\ UNCHANGED single
    /\ UNCHANGED dbvars

\* assess_image_quality: cv2.imread(image_path)
AssessQuality(r) ==
    /\ reqs[r].pc = "loaded"
    /\ reqs' = [reqs EXCEPT ![r].pc = "predicted",
                            ![r].quality = files[reqs[r].filepath]]
    /\ UNCHANGED <<files, rows, now>>
    /\ UNCHANGED single
    /\ UNCHANGED dbvars

\* INSERT INTO predictions: the path and the prediction of the loaded image
Persist(r) ==
    /\ reqs[r].pc = "predicted"
    /\ rows' = Append(rows, [request    |-> r,
                             image_path |-> reqs[r].filepath,
                             predicted  |-> reqs[r].img_array])
    /\ reqs' = [reqs EXCEPT ![r].pc = "done"]
    /\ UNCHANGED <<files, now>>
    /\ UNCHANGED single
    /\ UNCHANGED dbvars

Save == \E r \in Requests : SaveFile(r)
Load == \E r \in Requests : LoadImage(r)
Assess == \E r \in Requests : AssessQuality(r)
Insert == \E r \in Requests : Persist(r)

NextConc ==
    \/ Save
    \/ Load
    \/ Assess
    \/ Insert
    \/ Tick

SpecConc == InitConc /\ [][NextConc]_vars

----------------------------------------------------------------------------
(* Accounts: the tokens, the authentication decorators and the endpoints   *)
(* that change the users table.  A user is named by its id.                *)

Roles == {"admin", "patient"}

\* the roles a client may send to PUT /api/admin/users/<id>/role
RoleInputs == Roles \cup {"doctor"}

\* the user ids a client may name: the default users and an id of no user
TargetIds == (DOMAIN DefaultUsers) \cup {3}

\* the variables the account and record endpoints leave alone
others == <<single, concvars, now>>

\* the answer of an endpoint: its status and the users whose rows it showed
\* or changed
Answer(ep, token, target, status, owners) ==
    [endpoint |-> ep,
     token    |-> token,
     target   |-> target,
     status   |-> status,
     owners   |-> owners]

\* the payload of generate_token; 'exp' lies 24 hours after 'iat', beyond
\* the clock of the model
Token(user_id, role, iat) == [user_id |-> user_id, role |-> role, iat |-> iat]

\* the Authorization headers a client can send: a token it was given, or none
Headers == (DOMAIN tokens) \cup {None}

get_user_by_id(user_id) ==
    IF user_id \in DOMAIN db.users
    THEN [id        |-> user_id,
          role      |-> db.users[user_id].role,
          is_active |-> db.users[user_id].is_active]
    ELSE None

authenticate_user(username, password_ok) ==
    IF /\ username \in DOMAIN db.users
       /\ db.users[username].is_active
       /\ password_ok
    THEN get_user_by_id(username)
    ELSE None

store_token_session(d, user_id, token) ==
    [d EXCEPT !.user_sessions =
        @ \cup {[user_id |-> user_id, token |-> token, is_active |-> TRUE]}]

log_user_activity(d, user_id) ==
    [d EXCEPT !.user_activity = @ \cup {user_id}]

is_token_session_active(user_id, token) ==
    \E row \in db.user_sessions :
        /\ row.user_id = user_id
        /\ row.token = token
        /\ row.is_active

verify_token(token) ==
    IF is_token_session_active(token.user_id, token) THEN token ELSE None

\* require_auth of auth_routes and of unified_app: the current user, or None
\* when the request is answered 401
require_auth(header) ==
    IF header = None THEN None ELSE get_user_by_id(header.user_id)

\* require_admin of admin_routes: the status of its refusal, 0 when it lets
\* the request through
require_admin(header) ==
    IF header = None THEN 401
    ELSE IF verify_token(header) = None THEN 401
    ELSE IF header.role # "admin" THEN 403
    ELSE 0

InitAccounts ==
    /\ models = MODEL_PATHS
    /\ model_status \in Statuses(models)
    /\ now = 0
    /\ first = None
    /\ Idle
    /\ NoUploads
    /\ FreshInstall

\* POST /api/auth/login
login(username, password_ok) ==
    LET user == authenticate_user(username, password_ok)
        token == Token(user.id, user.role, now)
    IN  /\ IF user = None
           THEN /\ last' = Answer("login", None, username, 401, {})
                /\ UNCHANGED <<db, tokens>>
           ELSE /\ db' = log_user_activity(
                            store_token_session(db, user.id, token), user.id)
                /\ tokens' = Put(tokens, token, "held")
                /\ last' = Answer("login", token, username, 200, {user.id})
        /\ UNCHANGED inflight
        /\ UNCHANGED others

\* POST /api/auth/logout
logout(header) ==
    LET user == require_auth(header)
    IN  /\ IF user = None
           THEN /\ last' = Answer("logout", header, 0, 401, {})
                /\ UNCHANGED <<db, tokens>>
           ELSE /\ db' = log_user_activity(db, user.id)
                /\ tokens' = [tokens EXCEPT ![header] = "logged_out"]
                /\ last' = Answer("logout", header, 0, 200, {user.id})
        /\ UNCHANGED inflight
        /\ UNCHANGED others

\* GET /api/auth/profile, an endpoint behind require_auth
profile(header) ==
    LET user == require_auth(header)
    IN  /\ last' = IF user = None
                   THEN Answer("profile", header, 0, 401, {})
                   ELSE Answer("profile", header, 0, 200, {user.id})
        /\ UNCHANGED <<db, tokens, inflight>>
        /\ UNCHANGED others

\* GET /api/admin/dashboard, an endpoint behind require_admin
admin_dashboard(header) ==
    LET refused == require_admin(header)
    IN  /\ last' = IF refused # 0
                   THEN Answer("admin_dashboard", header, 0, refused, {})
                   ELSE Answer("admin_dashboard", header, 0, 200,
                               DOMAIN db.users)
        /\ UNCHANGED <<db, tokens, inflight>>
        /\ UNCHANGED others

\* UPDATE users SET is_active = NOT is_active WHERE id = user_id
ToggleActive(d, user_id) ==
    [d EXCEPT !.users[user_id].is_active = ~@]

\* POST /api/auth/admin/users/<id>/toggle-status
admin_toggle_user_status(header, user_id) ==
    LET user == require_auth(header)
        status == IF user = None THEN 401
                  ELSE IF user.role # "admin" THEN 403
                  ELSE IF user.id = user_id THEN 400
                  ELSE IF user_id \notin DOMAIN db.users THEN 404
                  ELSE 200
    IN  /\ IF status = 200
           THEN /\ db' = ToggleActive(db, user_id)
                /\ last' = Answer("admin_toggle_user_status", header, user_id,
                                  200, {user_id})
           ELSE /\ last' = Answer("admin_toggle_user_status", header, user_id,
                                  status, {})
                /\ UNCHANGED db
        /\ UNCHANGED <<tokens, inflight>>
        /\ UNCHANGED others

\* POST /api/admin/users/<id>/toggle-status
toggle_user_status(header, user_id) ==
    LET refused == require_admin(header)
        status == IF refused # 0 THEN refused
                  ELSE IF user_id \notin DOMAIN db.users THEN 404
                  ELSE 200
    IN  /\ IF status = 200
           THEN /\ db' = log_user_activity(ToggleActive(db, user_id),
                                           header.user_id)
                /\ last' = Answer("toggle_user_status", header, user_id,
                                  200, {user_id})
           ELSE /\ last' = Answer("toggle_user_status", header, user_id,
                                  status, {})
                /\ UNCHANGED db
        /\ UNCHANGED <<tokens, inflight>>
        /\ UNCHANGED others

\* PUT /api/admin/users/<id>/role
update_user_role(header, user_id, new_role) ==
    LET refused == require_admin(header)
        status == IF refused # 0 THEN refused
                  ELSE IF new_role \notin Roles THEN 400
                  ELSE IF user_id \notin DOMAIN db.users THEN 404
                  ELSE 200
    IN  /\ IF status = 200
           THEN /\ db' = log_user_activity(
                            [db EXCEPT !.users[user_id].role = new_role],
                            header.user_id)
                /\ last' = Answer("update_user_role", header, user_id,
                                  200, {user_id})
           ELSE /\ last' = Answer("update_user_role", header, user_id,
                                  status, {})
                /\ UNCHANGED db
        /\ UNCHANGED <<tokens, inflight>>
        /\ UNCHANGED others

Login == \E username \in TargetIds, password_ok \in BOOLEAN :
            login(username, password_ok)
Logout == \E header \in Headers : logout(header)
Profile == \E header \in Headers : profile(header)
Dashboard == \E header \in Headers : admin_dashboard(header)
AuthToggle == \E header \in Headers, user_id \in TargetIds :
                 admin_toggle_user_status(header, user_id)
AdminToggle == \E header \in Headers, user_id \in TargetIds :
                  toggle_user_status(header, user_id)
UpdateRole == \E header \in Headers, user_id \in TargetIds,
                 new_role \in RoleInputs :
                 update_user_role(header, user_id, new_role)

NextAccounts ==
    \/ Login
    \/ Logout
    \/ Profile
    \/ Dashboard
    \/ AuthToggle
    \/ AdminToggle
    \/ UpdateRole

SpecAccounts == InitAccounts /\ [][NextAccounts]_vars

----------------------------------------------------------------------------
(* Records: patients, predictions and the endpoints that read and delete   *)
(* them.  /api/upload is two steps: its patient check, then, after         *)
(* predict_disease, its INSERT.                                            *)

PatientIds == 1..MaxPatients
PredictionIds == 1..MaxPredictions

\* the tokens of admin and demo_patient after each has logged in
LoggedIn == { Token(u, DefaultUsers[u].role, 0) : u \in DOMAIN DefaultUsers }

\* the database once both default users have logged in
UsedDb ==
    [FreshDb EXCEPT
        !.user_sessions = { [user_id |-> t.user_id, token |-> t,
                             is_active |-> TRUE] : t \in LoggedIn },
        !.user_activity = DOMAIN DefaultUsers]

\* a database file that holds a patient of demo_patient with a row of
\* medical history (init_db keeps the tables it finds)
KeptDb ==
    [UsedDb EXCEPT
        !.patients        = {[id |-> 1, user_id |-> 2]},
        !.patient_seq     = 1,
        !.medical_history = {[patient_id |-> 1]}]

InitRecords ==
    /\ models = MODEL_PATHS
    /\ model_status \in Statuses(models)
    /\ now = 0
    /\ first = None
    /\ Idle
    /\ NoUploads
    /\ db \in {UsedDb, KeptDb}
    /\ tokens = [t \in LoggedIn |-> "held"]
    /\ inflight = {}
    /\ last = NoAnswer

\* the user_id column of a set of rows
OwnersOf(table) == { row.user_id : row \in table }

\* POST /api/auth/patient/register
patient_register(header) ==
    LET user == require_auth(header)
        patient_id == db.patient_seq + 1
    IN  /\ db.patient_seq < MaxPatients
        /\ IF user = None
           THEN /\ last' = Answer("patient_register", header, 0, 401, {})
                /\ UNCHANGED db
           ELSE /\ db' = [db EXCEPT
                            !.patients = @ \cup {[id |-> patient_id,
                                                  user_id |-> user.id]},
                            !.patient_seq = patient_id]
                /\ last' = Answer("patient_register", header, patient_id,
                                  201, {user.id})
        /\ UNCHANGED <<tokens, inflight>>
        /\ UNCHANGED others

\* DELETE /api/auth/patient/<id>
delete_patient_by_id(header, patient_id) ==
    LET user == require_auth(header)
        patient == { p \in db.patients :
                        p.id = patient_id /\ p.user_id = user.id }
        prediction_count ==
            Cardinality({ r \in db.predictions : r.patient_id = patient_id })
        status == IF user = None THEN 401
                  ELSE IF patient = {} THEN 404
                  ELSE IF prediction_count > 0 THEN 400
                  ELSE 200
    IN  /\ IF status = 200
           THEN /\ db' = [db EXCEPT !.patients = @ \ patient]
                /\ last' = Answer("delete_patient_by_id", header, patient_id,
                                  200, {user.id})
           ELSE /\ last' = Answer("delete_patient_by_id", header, patient_id,
                                  status, {})
                /\ UNCHANGED db
        /\ UNCHANGED <<tokens, inflight>>
        /\ UNCHANGED others

\* /api/upload up to its patient check: "Verify patient belongs to current
\* user"
upload_verify(header, patient_id) ==
    LET current_user == require_auth(header)
        patient_data == { p \in db.patients :
                            p.id = patient_id /\ p.user_id = current_user.id }
    IN  /\ db.prediction_seq < MaxPredictions
        /\ IF current_user = None
           THEN /\ last' = Answer("upload", header, patient_id, 401, {})
                /\ UNCHANGED inflight
           ELSE IF patient_data = {}
           THEN /\ last' = Answer("upload", header, patient_id, 403, {})
                /\ UNCHANGED inflight
           ELSE /\ inflight' = inflight \cup
                                 {[header     |-> header,
                                   user_id    |-> current_user.id,
                                   patient_id |-> patient_id]}
                /\ UNCHANGED last
        /\ UNCHANGED <<db, tokens>>
        /\ UNCHANGED others

\* /api/upload after predict_disease: INSERT INTO predictions
upload_insert(request) ==
    LET prediction_id == db.prediction_seq + 1
    IN  /\ request \in inflight
        /\ db.prediction_seq < MaxPredictions
        /\ db' = [db EXCEPT
                    !.predictions = @ \cup {[id         |-> prediction_id,
                                             patient_id |-> request.patient_id,
                                             user_id    |-> request.user_id]},
                    !.prediction_seq = prediction_id]
        /\ inflight' = inflight \ {request}
        /\ last' = Answer("upload", request.header, request.patient_id, 200,
                          {request.user_id})
        /\ UNCHANGED tokens
        /\ UNCHANGED others

\* /api/upload when predict_disease returns None
upload_fail(request) ==
    /\ request \in inflight
    /\ inflight' = inflight \ {request}
    /\ last' = Answer("upload", request.header, request.patient_id, 500, {})
    /\ UNCHANGED <<db, tokens>>
    /\ UNCHANGED others

\* GET /api/auth/settings: CREATE TABLE IF NOT EXISTS user_settings, and the
\* default row of the user
get_user_settings(header) ==
    LET user == require_auth(header)
    IN  /\ IF user = None
           THEN /\ last' = Answer("get_user_settings", header, 0, 401, {})
                /\ UNCHANGED db
           ELSE /\ db' = [db EXCEPT !.settings_table = TRUE,
                                    !.user_settings = @ \cup {user.id}]
                /\ last' = Answer("get_user_settings", header, 0, 200,
                                  {user.id})
        /\ UNCHANGED <<tokens, inflight>>
        /\ UNCHANGED others

\* the DELETE statements of delete_account, in the order of the source
DeleteActivity(d, id) == [d EXCEPT !.user_activity = (@ \cup {id}) \ {id}]
DeleteSessions(d, id) ==
    [d EXCEPT !.user_sessions = { row \in @ : row.user_id # id }]
DeletePredictions(d, id) ==
    [d EXCEPT !.predictions = { row \in @ : row.user_id # id }]
DeletePatients(d, id) ==
    [d EXCEPT !.patients = { row \in @ : row.user_id # id }]
DeleteEnhanced(d, id) == [d EXCEPT !.patients_enhanced = @ \ {id}]
DeleteHistory(d, id) ==
    [d EXCEPT !.medical_history =
        { row \in @ : row.patient_id \notin
            { p.id : p \in { q \in d.patients : q.user_id = id } } }]
DeleteSettings(d, id) == [d EXCEPT !.user_settings = @ \ {id}]
DeleteUser(d, id) ==
    [d EXCEPT !.users = [u \in (DOMAIN @) \ {id} |-> @[u]]]

\* DELETE /api/auth/delete-account; without the user_settings table its
\* DELETE raises and nothing is committed
delete_account(header) ==
    LET user == require_auth(header)
        status == IF user = None THEN 401
                  ELSE IF user.role = "admin" THEN 403
                  ELSE IF ~db.settings_table THEN 500
                  ELSE 200
        id == user.id
    IN  /\ IF status = 200
           THEN /\ db' = DeleteUser(
                          DeleteSettings(
                          DeleteHistory(
                          DeleteEnhanced(
                          DeletePatients(
                          DeletePredictions(
                          DeleteSessions(
                          DeleteActivity(db, id), id), id), id), id), id), id),
                          id)
                /\ last' = Answer("delete_account", header, id, 200, {id})
           ELSE /\ last' = Answer("delete_account", header, 0, status, {})
                /\ UNCHANGED db
        /\ UNCHANGED <<tokens, inflight>>
        /\ UNCHANGED others

\* GET /api/patients
get_patients(header) ==
    LET user == require_auth(header)
        shown == IF user.role = "admin"
                 THEN db.patients
                 ELSE { p \in db.patients : p.user_id = user.id }
    IN  /\ last' = IF user = None
                   THEN Answer("get_patients", header, 0, 401, {})
                   ELSE Answer("get_patients", header, 0, 200, OwnersOf(shown))
        /\ UNCHANGED <<db, tokens, inflight>>
        /\ UNCHANGED others

\* GET /api/patients/<id>
get_patient(header, patient_id) ==
    LET user == require_auth(header)
        patient_row == { p \in db.patients : p.id = patient_id }
        shown == { r \in db.predictions : r.patient_id = patient_id }
    IN  /\ last' = IF user = None
                   THEN Answer("get_patient", header, patient_id, 401, {})
                   ELSE IF patient_row = {}
                   THEN Answer("get_patient", header, patient_id, 404, {})
                   ELSE Answer("get_patient", header, patient_id, 200,
                               OwnersOf(patient_row) \cup OwnersOf(shown))
        /\ UNCHANGED <<db, tokens, inflight>>
        /\ UNCHANGED others

\* GET /api/patients/<id>/predictions: predictions JOIN patients
get_patient_predictions(header, patient_id) ==
    LET user == require_auth(header)
        shown == { r \in db.predictions :
                     /\ r.patient_id = patient_id
                     /\ \E p \in db.patients : p.id = r.patient_id }
    IN  /\ last' = IF user = None
                   THEN Answer("get_patient_predictions", header, patient_id,
                               401, {})
                   ELSE Answer("get_patient_predictions", header, patient_id,
                               200, OwnersOf(shown))
        /\ UNCHANGED <<db, tokens, inflight>>
        /\ UNCHANGED others

\* GET /api/patients/<id>/history
get_patient_history(header, patient_id) ==
    LET user == require_auth(header)
        shown == { r \in db.predictions : r.patient_id = patient_id }
    IN  /\ last' = IF user = None
                   THEN Answer("get_patient_history", header, patient_id,
                               401, {})
                   ELSE Answer("get_patient_history", header, patient_id,
                               200, OwnersOf(shown))
        /\ UNCHANGED <<db, tokens, inflight>>
        /\ UNCHANGED others

\* GET /api/report/pdf/<id>: no decorator; predictions JOIN patients
generate_pdf_report_endpoint(header, prediction_id) ==
    LET row == { r \in db.predictions :
                   /\ r.id = prediction_id
                   /\ \E p \in db.patients : p.id = r.patient_id }
    IN  /\ last' = IF row = {}
                   THEN Answer("generate_pdf_report_endpoint", header,
                               prediction_id, 404, {})
                   ELSE Answer("generate_pdf_report_endpoint", header,
                               prediction_id, 200, OwnersOf(row))
        /\ UNCHANGED <<db, tokens, inflight>>
        /\ UNCHANGED others

\* DELETE /api/predictions/<id>
delete_prediction(header, prediction_id) ==
    LET user == require_auth(header)
        found == { r \in db.predictions : r.id = prediction_id }
        status == IF user = None THEN 401
                  ELSE IF found = {} THEN 404
                  ELSE 200
    IN  /\ IF status = 200
           THEN /\ db' = [db EXCEPT !.predictions = @ \ found]
                /\ last' = Answer("delete_prediction", header, prediction_id,
                                  200, OwnersOf(found))
           ELSE /\ last' = Answer("delete_prediction", header, prediction_id,
                                  status, {})
                /\ UNCHANGED db
        /\ UNCHANGED <<tokens, inflight>>
        /\ UNCHANGED others

PatientRegister == \E header \in Headers : patient_register(header)
DeletePatient == \E header \in Headers, patient_id \in PatientIds :
                    delete_patient_by_id(header, patient_id)
UploadVerify == \E header \in Headers, patient_id \in PatientIds :
                   upload_verify(header, patient_id)
UploadInsert == \E request \in inflight : upload_insert(request)
UploadFail == \E request \in inflight : upload_fail(request)
GetSettings == \E header \in Headers : get_user_settings(header)
DeleteAccount == \E header \in Headers : delete_account(header)
GetPatients == \E header \in Headers : get_patients(header)
GetPatient == \E header \in Headers, patient_id \in PatientIds :
                 get_patient(header, patient_id)
GetPatientPredictions == \E header \in Headers, patient_id \in PatientIds :
                            get_patient_predictions(header, patient_id)
GetPatientHistory == \E header \in Headers, patient_id \in PatientIds :
                        get_patient_history(header, patient_id)
PdfReport == \E header \in Headers, prediction_id \in PredictionIds :
                generate_pdf_report_endpoint(header, prediction_id)
DeletePrediction == \E header \in Headers, prediction_id \in PredictionIds :
                       delete_prediction(header, prediction_id)

NextRecords ==
    \/ PatientRegister
    \/ DeletePatient
    \/ UploadVerify
    \/ UploadInsert
    \/ UploadFail
    \/ GetSettings
    \/ DeleteAccount
    \/ GetPatients
    \/ GetPatient
    \/ GetPatientPredictions
    \/ GetPatientHistory
    \/ PdfReport
    \/ DeletePrediction

SpecRecords == InitRecords /\ [][NextRecords]_vars

----------------------------------------------------------------------------
(* Properties of the labelling of one classifier.                          *)

\* predict_disease has returned a result to the endpoint
Answered == pc = "done" /\ result # None

SigmoidModels == {"pneumonia", "tuberculosis"}

\* the classifiers of the current request that returned a vector of arity n
Returned(n) ==
    { d \in DOMAIN prediction : ~prediction[d].throws /\ Len(prediction[d].out) = n }

\* C1: a sigmoid classifier with output v is labelled with its disease iff
\* v > 0.5 and 'normal' otherwise (so v = 0.5 is 'normal'), its confidence is
\* max(v, 1 - v), and the result carries that label and confidence.
ThmC1 ==
    \A d \in SigmoidModels \cap Returned(1) :
        LET v == prediction[d].out[1]
        IN  /\ predictions[d] = d <=> v > Half
            /\ predictions[d] # d => predictions[d] = "normal"
            /\ confidence_scores[d] = MaxOf({v, One - v})
            /\ Answered => /\ result.all_predictions[d] = predictions[d]
                           /\ result.confidence_scores[d] = confidence_scores[d]

\* both sigmoid classifiers ran, one exactly at 0.5 and one above it
WitC1 ==
    /\ Answered
    /\ SigmoidModels \subseteq Returned(1)
    /\ prediction["pneumonia"].out[1] = Half
    /\ result.all_predictions["pneumonia"] = "normal"
    /\ result.confidence_scores["pneumonia"] = Half
    /\ prediction["tuberculosis"].out[1] = One
    /\ result.all_predictions["tuberculosis"] = "tuberculosis"

\* C2: for a 3-way lung-cancer output summing to 1 the label is a class of
\* largest probability, the confidence is that probability, and ties go to
\* malignant before benign before normal.
ThmC2 ==
    \A d \in {"lung_cancer"} \cap Returned(3) :
        LET normal_prob == prediction[d].out[1]
            benign_prob == prediction[d].out[2]
            malignant_prob == prediction[d].out[3]
            largest == MaxOf({normal_prob, benign_prob, malignant_prob})
            ProbOf(label) ==
                CASE label = "lung_cancer_malignant" -> malignant_prob
                  [] label = "lung_cancer_benign"    -> benign_prob
                  [] label = "normal"                -> normal_prob
                  [] OTHER                           -> 0 - 1
        IN  normal_prob + benign_prob + malignant_prob = One =>
              /\ ProbOf(predictions[d]) = largest
              /\ confidence_scores[d] = largest
              /\ malignant_prob = largest => predictions[d] = "lung_cancer_malignant"
              /\ (benign_prob = largest /\ malignant_prob < largest)
                    => predictions[d] = "lung_cancer_benign"
              /\ Answered => /\ result.all_predictions[d] = predictions[d]
                             /\ result.confidence_scores[d] = confidence_scores[d]

\* a three-way tie went to malignant
WitC2 ==
    /\ Answered
    /\ "lung_cancer" \in Returned(3)
    /\ prediction["lung_cancer"].out = <<20, 20, 20>>
    /\ result.all_predictions["lung_cancer"] = "lung_cancer_malignant"
    /\ result.confidence_scores["lung_cancer"] = 20

----------------------------------------------------------------------------
(* Properties of the aggregation.                                          *)

\* the classifiers whose label is a disease held with confidence above 0.5
Fired(preds, confs) ==
    { d \in DOMAIN preds : preds[d] \notin {"normal", "error"} /\ confs[d] > Half }

FindingsOf(sd) == { sd[k].disease : k \in 1..Len(sd) }

ExactFindings(res) ==
    LET sd == res.significant_diseases
    IN  /\ FindingsOf(sd) = Fired(res.all_predictions, res.confidence_scores)
        /\ Cardinality(FindingsOf(sd)) = Len(sd)
        /\ \A k \in 1..Len(sd) :
              /\ sd[k].diagnosis = res.all_predictions[sd[k].disease]
              /\ sd[k].confidence = res.confidence_scores[sd[k].disease]
              /\ sd[k].diagnosis \notin {"normal", "error"}

SortedDescending(sd) ==
    \A j, k \in 1..Len(sd) : j < k => sd[j].confidence >= sd[k].confidence

Position(disease) == CHOOSE n \in 1..Len(MODEL_PATHS) : MODEL_PATHS[n] = disease

RegistryOrder(sd) ==
    \A j, k \in 1..Len(sd) : j < k => Position(sd[j].disease) < Position(sd[k].disease)

\* C3, as stated: significant_diseases, in iteration order, is sorted by
\* confidence descending and holds exactly the classifiers with a disease
\* label and confidence above 0.5.
CexC3 ==
    Answered => /\ SortedDescending(result.significant_diseases)
                /\ ExactFindings(result)

\* C3, amended: significant_diseases holds exactly the classifiers with a
\* disease label and confidence above 0.5, never a 'normal' or 'error'
\* entry, and iterates in registry order (pneumonia, tuberculosis,
\* lung_cancer) whatever the confidences are.
ThmC3 ==
    Answered => /\ RegistryOrder(result.significant_diseases)
                /\ ExactFindings(result)

\* two findings in registry order, the less confident one first
WitC3 ==
    /\ Answered
    /\ Len(result.significant_diseases) = 2
    /\ result.significant_diseases[1].confidence < result.significant_diseases[2].confidence
    /\ \E d \in DOMAIN result.all_predictions : result.all_predictions[d] = "normal"

\* C4: with a non-empty FindingSet the primary diagnosis is the label of a
\* Finding of maximal confidence, the overall confidence is that Finding's,
\* and multiple_findings is TRUE iff there is more than one Finding.
ThmC4 ==
    Answered =>
        LET sd == result.significant_diseases
        IN  sd # <<>> =>
              /\ \E k \in 1..Len(sd) :
                    /\ sd[k].diagnosis = result.primary_diagnosis
                    /\ sd[k].confidence = result.confidence
                    /\ \A j \in 1..Len(sd) : sd[j].confidence <= sd[k].confidence
              /\ result.multiple_findings <=> Len(sd) > 1

\* three findings, the most confident one in the middle
WitC4 ==
    /\ Answered
    /\ Len(result.significant_diseases) = 3
    /\ result.significant_diseases[1].confidence < result.significant_diseases[2].confidence
    /\ result.significant_diseases[3].confidence < result.significant_diseases[2].confidence
    /\ result.primary_diagnosis = "tuberculosis"
    /\ result.multiple_findings

\* C5, as stated: with an empty FindingSet the diagnosis is 'normal',
\* multiple_findings is FALSE and the overall confidence is the maximum of
\* the classifiers' confidences, or 0.85 if no classifier ran.
CexC5 ==
    (Answered /\ result.significant_diseases = <<>>) =>
        /\ result.primary_diagnosis = "normal"
        /\ result.multiple_findings = FALSE
        /\ result.confidence =
              IF DOMAIN result.confidence_scores = {}
              THEN DefaultNormal
              ELSE MaxOf({result.confidence_scores[d] :
                            d \in DOMAIN result.confidence_scores})

----------------------------------------------------------------------------
(* Properties of the report and of failing classifiers.                    *)

\* C6: when two or more classifiers hold a disease label with confidence
\* above 0.5, multiple_findings is TRUE in the result and in the report,
\* all_findings has one entry for each of those classifiers, and the entries
\* are ordered by confidence descending.
ThmC6 ==
    Answered =>
        LET fired == Fired(result.all_predictions, result.confidence_scores)
            all_findings == medical_report.all_findings
        IN  Cardinality(fired) >= 2 =>
              /\ result.multiple_findings
              /\ medical_report.multiple_findings
              /\ Len(all_findings) = Cardinality(fired)
              /\ \E at \in [fired -> 1..Len(all_findings)] :
                    /\ \A d, e \in fired : d # e => at[d] # at[e]
                    /\ \A d \in fired :
                          /\ all_findings[at[d]].disease =
                                Title(result.all_predictions[d])
                          /\ all_findings[at[d]].confidence_numeric =
                                result.confidence_scores[d]
              /\ \A j, k \in 1..Len(all_findings) :
                    j < k => all_findings[j].confidence_numeric >=
                             all_findings[k].confidence_numeric

\* the report lists two findings in the opposite order of the result
WitC6 ==
    /\ Answered
    /\ Len(result.significant_diseases) = 2
    /\ result.significant_diseases[1].confidence < result.significant_diseases[2].confidence
    /\ medical_report.multiple_findings
    /\ Len(medical_report.all_findings) = 2
    /\ medical_report.all_findings[1].confidence_numeric =
          result.significant_diseases[2].confidence
    /\ medical_report.all_findings[2].confidence_numeric =
          result.significant_diseases[1].confidence

\* every loaded classifier ran and was recorded as 'error'
AllFailed ==
    /\ models # <<>>
    /\ DOMAIN predictions = { models[k] : k \in 1..Len(models) }
    /\ \A d \in DOMAIN predictions : predictions[d] = "error"

\* C7, as stated: when all loaded classifiers fail, predict_disease returns
\* no usable result and the endpoint answers with an error, not with a
\* 'normal' diagnosis.
CexC7 ==
    (pc = "done" /\ AllFailed) =>
        /\ result = None
        /\ response.status # 200
        /\ response.primary_diagnosis # "normal"

Remove(dict, key) == [k \in (DOMAIN dict) \ {key} |-> dict[k]]

\* the classifiers of the current request whose inference call raised
Throwers == { d \in DOMAIN prediction : Raises(d, prediction[d]) }

\* C8: a classifier whose inference call throws is recorded as 'error' with
\* confidence 0, is no Finding, and a 'normal' diagnosis has the overall
\* confidence it has when that classifier is left out of the request.
ThmC8 ==
    \A d \in Throwers :
        /\ predictions[d] = "error"
        /\ confidence_scores[d] = 0
        /\ Answered =>
              /\ result.all_predictions[d] = "error"
              /\ result.confidence_scores[d] = 0
              /\ d \notin FindingsOf(result.significant_diseases)
              /\ result.primary_diagnosis = "normal" =>
                    result.confidence =
                        Aggregate(Remove(predictions, d),
                                  Remove(confidence_scores, d),
                                  quality_score).confidence

\* a 'normal' diagnosis of a request in which one classifier threw and
\* another one answered
WitC8 ==
    /\ Answered
    /\ result.primary_diagnosis = "normal"
    /\ Throwers # {}
    /\ \E d \in DOMAIN predictions : predictions[d] = "normal"
    /\ result.confidence > Half

\* the dict restricted to the classifiers that did not throw
Remaining(dict) == [k \in (DOMAIN dict) \ Throwers |-> dict[k]]

\* C9: whichever classifiers throw, every loaded classifier is run, each
\* classifier that does not throw gets the label and confidence of its own
\* output, and the overall diagnosis is the one the aggregation gives for
\* the classifiers that did not throw.
ThmC9 ==
    /\ \A k \in 1..Len(models) :
          (pc = "predicting" /\ k < i) => models[k] \in DOMAIN predictions
    /\ \A d \in (DOMAIN prediction) \ Throwers :
          /\ d \in DOMAIN predictions
          /\ predictions[d] = Classify(d, prediction[d].out).diagnosis
          /\ confidence_scores[d] = Classify(d, prediction[d].out).confidence
    /\ Answered =>
          /\ DOMAIN result.all_predictions = { models[k] : k \in 1..Len(models) }
          /\ result.primary_diagnosis =
                Aggregate(Remaining(predictions), Remaining(confidence_scores),
                          quality_score).primary_diagnosis

\* both sigmoid classifiers threw and the third one gives the diagnosis
WitC9 ==
    /\ Answered
    /\ Len(models) = 3
    /\ prediction["pneumonia"].throws
    /\ prediction["tuberculosis"].throws
    /\ result.primary_diagnosis = "lung_cancer_benign"

\* the arities a classifier declares
DeclaredArities(disease) == IF disease = "lung_cancer" THEN {2, 3} ELSE {1}

\* C10, as stated: an output of an arity the classifier does not declare
\* yields the label 'error', which is no Finding.
CexC10 ==
    \A d \in DOMAIN prediction :
        (~prediction[d].throws /\ Len(prediction[d].out) \notin DeclaredArities(d)) =>
            /\ predictions[d] = "error"
            /\ Answered => d \notin FindingsOf(result.significant_diseases)

----------------------------------------------------------------------------
(* Properties of a request whose image cannot be preprocessed.             *)

\* C11: when preprocess_image fails no classifier is invoked and nothing is
\* aggregated: predict_disease returns None, the endpoint answers 500
\* 'Failed to analyze image', no prediction row is persisted, and the
\* server goes on to the next request.
ThmC11 ==
    /\ img_array = "none" =>
          /\ pc = "done"
          /\ prediction = EmptyDict
          /\ predictions = EmptyDict
          /\ confidence_scores = EmptyDict
          /\ result = None
          /\ medical_report = None
          /\ saved_row = None
          /\ response.status = 500
          /\ response.error = "Failed to analyze image"
          /\ ENABLED EndRequest
    /\ pc = "idle" => ENABLED StartRequest

\* /api/predict has answered a request whose image could not be decoded
WitC11 ==
    /\ pc = "done"
    /\ img_array = "none"
    /\ endpoint = "predict"
    /\ response = Failure
    /\ saved_row = None
    /\ models = MODEL_PATHS

----------------------------------------------------------------------------
(* Properties of the confidences of a result.                              *)

\* every value a classifier returned in the current request is in [0,1]
ProbabilityOutputs ==
    \A d \in DOMAIN prediction :
        \A k \in 1..Len(prediction[d].out) : prediction[d].out[k] \in 0..One

\* C12: for classifier outputs in [0,1] every confidence of a result (per
\* classifier, per Finding and overall) is in [0,1], error and default
\* outcomes included.
ThmC12 ==
    ProbabilityOutputs =>
        /\ \A d \in DOMAIN confidence_scores : confidence_scores[d] \in 0..One
        /\ Answered =>
              /\ \A d \in DOMAIN result.confidence_scores :
                    result.confidence_scores[d] \in 0..One
              /\ \A k \in 1..Len(result.significant_diseases) :
                    result.significant_diseases[k].confidence \in 0..One
              /\ result.confidence \in 0..One
              /\ \A k \in 1..Len(medical_report.all_findings) :
                    medical_report.all_findings[k].confidence_numeric \in 0..One

\* the default outcome: a classifier was recorded as 'error' and the overall
\* confidence is the default 0.85
WitC12 ==
    /\ Answered
    /\ ProbabilityOutputs
    /\ models = MODEL_PATHS
    /\ result.all_predictions["pneumonia"] = "error"
    /\ result.confidence_scores["pneumonia"] = 0
    /\ result.all_predictions["lung_cancer"] = "error"
    /\ result.primary_diagnosis = "normal"
    /\ result.confidence = DefaultNormal
    /\ result.confidence_scores["tuberculosis"] = 0

\* the classifiers of a result that ran without error
RanWithoutError(res) ==
    { d \in DOMAIN res.all_predictions : res.all_predictions[d] # "error" }

\* the classifiers of a result whose own label is 'normal'
NormalModels(res) ==
    { d \in DOMAIN res.all_predictions : res.all_predictions[d] = "normal" }

\* C13, as stated: when the overall diagnosis is 'normal' and a classifier
\* ran without error, the overall confidence is the confidence of a
\* classifier labelled 'normal' and does not exceed the largest confidence
\* of the classifiers labelled 'normal'.
CexC13 ==
    (Answered /\ result.primary_diagnosis = "normal" /\ RanWithoutError(result) # {}) =>
        /\ \E d \in NormalModels(result) :
              result.confidence = result.confidence_scores[d]
        /\ \A d \in DOMAIN result.all_predictions :
              result.all_predictions[d] \notin {"normal", "error"} =>
                  \E n \in NormalModels(result) :
                      result.confidence_scores[d] <= result.confidence_scores[n]
        /\ result.confidence <=
              MaxOf({result.confidence_scores[d] : d \in NormalModels(result)})

----------------------------------------------------------------------------
(* Properties of the report.                                               *)

\* the endpoint has composed the report of a non-normal diagnosis
DiseaseReported == Answered /\ result.primary_diagnosis # "normal"

\* C14: the urgency of a report of a non-normal diagnosis is 'High' when
\* there is more than one Finding or the top confidence exceeds 0.8,
\* 'Medium' for a single Finding with confidence in (0.6, 0.8], and 'Low'
\* for a single Finding with confidence in (0.5, 0.6].
ThmC14 ==
    DiseaseReported =>
        LET count == Len(result.significant_diseases)
            top == result.confidence
        IN  /\ count >= 1
            /\ top > Half
            /\ (count > 1 \/ top > HighBand) => medical_report.urgency = "High"
            /\ (count = 1 /\ top > MediumBand /\ top <= HighBand)
                  => medical_report.urgency = "Medium"
            /\ (count = 1 /\ top <= MediumBand) => medical_report.urgency = "Low"

\* a single Finding at exactly 0.8 is 'Medium'
WitC14 ==
    /\ DiseaseReported
    /\ Len(result.significant_diseases) = 1
    /\ result.confidence = HighBand
    /\ medical_report.urgency = "Medium"
    /\ result.primary_diagnosis = "lung_cancer_benign"

\* the fixed part of the report of the normal branch
FixedNormalReport(report) ==
    /\ report.diagnosis = "Normal"
    /\ report.summary = <<"Normal Finding">>
    /\ report.description = "normal"
    /\ report.urgency = "Low"
    /\ report.multiple_findings = FALSE
    /\ report.all_findings = <<>>
    /\ report.keys \cap
          {"symptoms", "treatments", "severity_levels", "findings_count"} = {}

\* C15: the report of a 'normal' diagnosis is the fixed low-urgency report:
\* urgency 'Low', multiple_findings FALSE, no findings, and no symptoms,
\* treatments or severity levels of a disease, whatever Findings and
\* confidences the result carries.
ThmC15 ==
    /\ (Answered /\ result.primary_diagnosis = "normal") =>
           FixedNormalReport(medical_report)
    /\ Answered =>
           FixedNormalReport(generate_medical_report(
               [result EXCEPT !.primary_diagnosis = "normal"]))

\* a 'normal' report although a classifier holds a disease label below the
\* threshold and another one failed
WitC15 ==
    /\ Answered
    /\ result.primary_diagnosis = "normal"
    /\ medical_report.urgency = "Low"
    /\ \E d \in DOMAIN result.all_predictions :
          result.all_predictions[d] = "lung_cancer_malignant"
    /\ \E d \in DOMAIN result.all_predictions :
          result.all_predictions[d] = "error"
    /\ result.confidence > HighBand

\* the labels predict_disease can give a Finding
FindingLabels == {"pneumonia", "tuberculosis", "lung_cancer",
                  "lung_cancer_benign", "lung_cancer_malignant"}

\* C16: the report of a non-normal diagnosis has one finding for every entry
\* of significant_diseases, each with the description, symptoms and
\* treatments of the table entry of its label, in confidence-descending
\* order; every label of a Finding has a table entry, so no finding falls
\* back to 'Unknown condition'.
ThmC16 ==
    DiseaseReported =>
        LET sd == result.significant_diseases
            all_findings == medical_report.all_findings
        IN  /\ Len(all_findings) = Len(sd)
            /\ medical_report.findings_count = Len(sd)
            /\ \E at \in [1..Len(sd) -> 1..Len(all_findings)] :
                  /\ \A j, k \in 1..Len(sd) : j # k => at[j] # at[k]
                  /\ \A k \in 1..Len(sd) :
                        LET f == all_findings[at[k]]
                            label == sd[k].diagnosis
                        IN  /\ label \in FindingLabels
                            /\ f.disease = Title(label)
                            /\ f.confidence_numeric = sd[k].confidence
                            /\ f.description = label
                            /\ f.symptoms = <<label, "symptoms">>
                            /\ f.treatments = <<label, "treatments">>
            /\ \A k \in 1..Len(all_findings) :
                  /\ all_findings[k].description # "Unknown condition"
                  /\ all_findings[k].symptoms # <<>>
            /\ \A j, k \in 1..Len(all_findings) :
                  j < k => all_findings[j].confidence_numeric >=
                           all_findings[k].confidence_numeric

\* three findings, the malignant one not the primary one
WitC16 ==
    /\ DiseaseReported
    /\ Len(medical_report.all_findings) = 3
    /\ medical_report.all_findings[1].disease = "Pneumonia"
    /\ medical_report.all_findings[2].disease = "Lung Cancer Malignant"
    /\ medical_report.all_findings[2].description = "lung_cancer_malignant"
    /\ medical_report.all_findings[3].disease = "Tuberculosis"
    /\ medical_report.all_findings[2].confidence_numeric >
          medical_report.all_findings[3].confidence_numeric

\* C17: the report carries a quality note iff the image-quality score is
\* below 50, for normal and non-normal diagnoses alike, and the score
\* changes nothing else: the report of the same result with any other score
\* has the same diagnosis, findings and urgency.
ThmC17 ==
    Answered =>
        /\ "quality_note" \in medical_report.keys <=> quality_score < 50
        /\ medical_report.image_quality = quality_score
        /\ \A q \in QualityScores :
              LET other == generate_medical_report([result EXCEPT !.image_quality = q])
              IN  /\ other.diagnosis = medical_report.diagnosis
                  /\ other.all_findings = medical_report.all_findings
                  /\ other.urgency = medical_report.urgency
                  /\ other.multiple_findings = medical_report.multiple_findings
                  /\ other.confidence = medical_report.confidence
                  /\ "quality_note" \in other.keys <=> q < 50

\* a non-normal report without note at score 50, whose report at score 49
\* carries one
WitC17 ==
    /\ DiseaseReported
    /\ quality_score = 50
    /\ "quality_note" \notin medical_report.keys
    /\ "quality_note" \in
          generate_medical_report([result EXCEPT !.image_quality = 49]).keys
    /\ medical_report.urgency = "Low"

----------------------------------------------------------------------------
(* Properties of repeated requests.                                        *)

\* the current request is answered and has the inputs of the remembered one
Rerun == pc = "done" /\ result # None /\ first # None /\ first.inputs = Inputs

\* C18, as stated: a second run on the same raw vectors and quality score
\* yields a result and a report identical to the first, field for field.
CexC18 ==
    Rerun => /\ result = first.result
             /\ medical_report = first.medical_report

\* C18, amended: a second run on the same raw vectors and quality score
\* yields a result and a report identical to the first in every field other
\* than 'timestamp', whatever requests were served in between.
ThmC18 ==
    Rerun => /\ [result EXCEPT !.timestamp = 0] =
                   [first.result EXCEPT !.timestamp = 0]
             /\ [medical_report EXCEPT !.timestamp = 0] =
                   [first.medical_report EXCEPT !.timestamp = 0]

\* a later run on the inputs of the first one, with a Finding
WitC18 ==
    /\ Rerun
    /\ result.timestamp > first.result.timestamp
    /\ medical_report.timestamp > first.medical_report.timestamp
    /\ result.primary_diagnosis = "tuberculosis"
    /\ result.multiple_findings

----------------------------------------------------------------------------
(* Properties of concurrent requests.                                      *)

\* C19, as stated: in every interleaving of two requests each prediction is
\* computed from the image uploaded in the same request, each persisted
\* image_path refers to the image of its own request, and no request changes
\* the model registry or model_status.
CexC19 ==
    /\ \A r \in DOMAIN reqs :
          reqs[r].pc \in {"loaded", "predicted", "done"} =>
              reqs[r].img_array = reqs[r].image
    /\ \A r \in DOMAIN reqs :
          reqs[r].pc \in {"predicted", "done"} => reqs[r].quality = reqs[r].image
    /\ \A k \in 1..Len(rows) :
          /\ rows[k].predicted = rows[k].request
          /\ files[rows[k].image_path] = rows[k].request
    /\ models = MODEL_PATHS
    /\ model_status \in Statuses(models)

----------------------------------------------------------------------------
(* The scenario of two findings.                                           *)

\* sigmoid pneumonia 0.3, sigmoid tuberculosis 0.85, softmax lung_cancer
\* (0.1, 0.1, 0.8)
TwoFindingsScenario ==
    /\ Answered
    /\ DOMAIN prediction = {"pneumonia", "tuberculosis", "lung_cancer"}
    /\ prediction["pneumonia"] = Returns(<<18>>)
    /\ prediction["tuberculosis"] = Returns(<<DefaultNormal>>)
    /\ prediction["lung_cancer"] = Returns(<<6, 6, HighBand>>)

\* C20: for sigmoid pneumonia = 0.3, sigmoid tuberculosis = 0.85 and softmax
\* lung_cancer = (0.1, 0.1, 0.8), the significant findings returned by
\* predict_disease are, in order, tuberculosis at 0.85 and
\* lung_cancer_malignant at 0.8, the overall diagnosis is 'tuberculosis' with
\* confidence 0.85, and multiple_findings is True.
ThmC20 ==
    TwoFindingsScenario =>
        /\ result.significant_diseases =
              << [disease    |-> "tuberculosis",
                  diagnosis  |-> "tuberculosis",
                  confidence |-> 51],
                 [disease    |-> "lung_cancer",
                  diagnosis  |-> "lung_cancer_malignant",
                  confidence |-> 48] >>
        /\ result.primary_diagnosis = "tuberculosis"
        /\ result.confidence = 51
        /\ result.multiple_findings = TRUE

WitC20 ==
    /\ TwoFindingsScenario
    /\ Len(result.significant_diseases) = 2
    /\ result.all_predictions["pneumonia"] = "normal"
    /\ result.multiple_findings

----------------------------------------------------------------------------
(* Properties of the records and of the accounts.                          *)

\* the rows of user id left in the tables that carry a user_id
RowsOf(d, id) ==
    /\ id \notin d.user_activity
    /\ \A row \in d.user_sessions : row.user_id # id
    /\ \A row \in d.predictions : row.user_id # id
    /\ \A row \in d.patients : row.user_id # id
    /\ id \notin d.patients_enhanced
    /\ id \notin d.user_settings
    /\ id \notin DOMAIN d.users

CexC22 ==
    (DOMAIN db.users = DOMAIN DefaultUsers) =>
        \A r \in db.predictions : \E p \in db.patients : p.id = r.patient_id


ToggleEndpoints == {"admin_toggle_user_status", "toggle_user_status"}

\* C23, as stated: on both toggle-status endpoints a request whose target id
\* is the caller's own id is rejected and leaves users.is_active unchanged.
CexC23 ==
    [][ (/\ last'.endpoint \in ToggleEndpoints
         /\ last'.token # None
         /\ last'.token.user_id = last'.target) =>
            /\ last'.status # 200
            /\ db'.users = db.users ]_vars


RecordEndpoints ==
    {"get_patients", "get_patient", "get_patient_predictions",
     "get_patient_history", "generate_pdf_report_endpoint",
     "delete_prediction"}

\* the caller of the last request is not an admin
NonAdminCaller == last.token = None \/ last.token.role # "admin"

\* C24, as stated: a non-admin user reads patients and predictions, obtains a
\* PDF report and deletes a prediction only when the rows have user_id equal
\* to the user's id; requests for another user's rows show and change
\* nothing.
CexC24 ==
    (last.endpoint \in RecordEndpoints /\ NonAdminCaller) =>
        \A owner \in last.owners :
            last.token # None /\ owner = last.token.user_id


\* endpoints behind require_auth and require_admin that change nothing
ProtectedReads == {"profile", "admin_dashboard"}

\* C25, as stated: while a user is deactivated (is_active FALSE) login is
\* refused and every token of the user is rejected by every endpoint behind
\* require_auth or require_admin.
CexC25 ==
    (/\ last.endpoint \in ProtectedReads \cup {"login"}
     /\ last.token # None
     /\ last.token.user_id \in DOMAIN db.users
     /\ ~db.users[last.token.user_id].is_active) =>
        last.status # 200

\* C26, as stated: while a user's role is 'patient', every request of the
\* user to an endpoint behind require_admin is rejected with 403, whatever
\* the role in the token.
CexC26 ==
    (/\ last.endpoint = "admin_dashboard"
     /\ last.token # None
     /\ last.token.user_id \in DOMAIN db.users
     /\ db.users[last.token.user_id].role = "patient") =>
        last.status = 403

\* C27, as stated: a token that was used for a successful logout (and was
\* not issued again since) is rejected by verify_token and by every
\* protected endpoint.
CexC27 ==
    (/\ last.endpoint \in ProtectedReads
     /\ last.token # None
     /\ tokens[last.token] = "logged_out") =>
        last.status # 200


----------------------------------------------------------------------------
(* Properties of the persisted prediction and of the report's first        *)
(* finding.                                                                *)

\* C28, as stated: for every prediction persisted by /api/upload or by
\* /api/predict, the predicted_disease and confidence of the stored row
\* equal the primary diagnosis and overall confidence that predict_disease
\* returned and that the response reports.
CexC28 ==
    (Answered /\ saved_row # None) =>
        /\ saved_row.predicted_disease = result.primary_diagnosis
        /\ saved_row.predicted_disease = response.primary_diagnosis
        /\ saved_row.confidence = result.confidence
        /\ saved_row.confidence = response.confidence


\* C29: for every combination of classifier outputs that yields a non-normal
\* diagnosis, ties of confidence included, the first entry of the report's
\* all_findings is the finding of the primary diagnosis (its label is the
\* report's diagnosis, its confidence the report's confidence) and
\* findings_count is the number of significant diseases.
ThmC29 ==
    DiseaseReported =>
        /\ Len(medical_report.all_findings) >= 1
        /\ medical_report.all_findings[1].disease = medical_report.diagnosis
        /\ medical_report.all_findings[1].confidence = medical_report.confidence
        /\ medical_report.all_findings[1].confidence_numeric = result.confidence
        /\ medical_report.findings_count = Len(result.significant_diseases)

\* two findings of equal confidence and different labels
WitC29 ==
    /\ DiseaseReported
    /\ Len(result.significant_diseases) >= 2
    /\ result.significant_diseases[1].confidence =
          result.significant_diseases[2].confidence
    /\ result.significant_diseases[1].diagnosis #
          result.significant_diseases[2].diagnosis
    /\ medical_report.all_findings[1].disease = medical_report.diagnosis

====
